---- MODULE Spec2Model ----
(***************************************************************************)
(* Model of the product policy evaluator (ProductService) and of the order *)
(* endpoint that drives it.                                                *)
(*                                                                         *)
(* Time is counted in milliseconds since the epoch, as Date.getTime()      *)
(* does; a missing (null) date is Null and compares as the number 0, as    *)
(* the relational operators of the language do.                            *)
(***************************************************************************)
EXTENDS Integers, Sequences, FiniteSets

(* ------------------------------ bounds --------------------------------- *)

MaxAvailable == 2

MaxLeadTime == 2

MaxDay == 4

(* ----------------------------- constants ------------------------------- *)

DAY_IN_MS == 24 * 60 * 60 * 1000

Null == -1

KnownTypes == {"NORMAL", "SEASONAL", "EXPIRABLE"}

Types == KnownTypes \cup {"FLASHSALE"}

ProductIds == {1, 2}

Day(k) == k * DAY_IN_MS

Times == {Day(k) : k \in 1..MaxDay}

OptTimes == Times \cup {Null}

ProductName(id) == IF id = 1 THEN "p1" ELSE "p2"

(* ---------------------------- the product row -------------------------- *)

Product(id, type, available, leadTime, expiryDate, seasonStartDate, seasonEndDate) ==
    [id |-> id, type |-> type, available |-> available, leadTime |-> leadTime,
     name |-> ProductName(id), expiryDate |-> expiryDate,
     seasonStartDate |-> seasonStartDate, seasonEndDate |-> seasonEndDate]

SeasonPairs ==
    {w \in OptTimes \X OptTimes : (w[1] # Null /\ w[2] # Null) => w[1] <= w[2]}

Rows(id) ==
    UNION {
      {Product(id, "NORMAL", a, l, Null, Null, Null),
       Product(id, "FLASHSALE", a, l, Null, Null, Null)}
      \cup {Product(id, "SEASONAL", a, l, Null, w[1], w[2]) : w \in SeasonPairs}
      \cup {Product(id, "EXPIRABLE", a, l, e, Null, Null) : e \in OptTimes}
      : <<a, l>> \in (0..MaxAvailable) \X (0..MaxLeadTime)}

(* The second row of the store: fully stocked, NORMAL or EXPIRABLE on the   *)
(* last day.                                                               *)
Bystanders(id) ==
    {r \in Rows(id) :
        /\ r.type \in {"NORMAL", "EXPIRABLE"}
        /\ r.available = MaxAvailable
        /\ r.leadTime = MaxLeadTime
        /\ r.type = "EXPIRABLE" => r.expiryDate = Day(MaxDay)}

(* ------------------- the language's date comparisons ------------------- *)

Truthy(d) == d # Null

ToNumber(d) == IF d = Null THEN 0 ELSE d

(* ------------------------- effects of a call --------------------------- *)
(* A call of the service yields, in program order, the calls it makes on   *)
(* its two collaborators.  path is the stack of call sites (source lines   *)
(* of product.service.ts) through which the effect was reached.            *)

Call(line, effects) ==
    [i \in DOMAIN effects |-> [effects[i] EXCEPT !.path = <<line>> \o @]]

sendDelayNotification(leadTime, name) ==
    <<[op |-> "sendDelayNotification", leadTime |-> leadTime, name |-> name,
       path |-> <<>>]>>

sendOutOfStockNotification(name) ==
    <<[op |-> "sendOutOfStockNotification", name |-> name, path |-> <<>>]>>

sendExpirationNotification(name, expiryDate) ==
    <<[op |-> "sendExpirationNotification", name |-> name,
       expiryDate |-> expiryDate, path |-> <<>>]>>

updateProduct(productId, patch) ==
    <<[op |-> "update", id |-> productId, patch |-> patch, path |-> <<>>]>>

decrementAvailable_OffByOne(product) ==
    Call(78, updateProduct(product.id, [available |-> product.available]))

decrementAvailable(product) ==
    Call(78, updateProduct(product.id, [available |-> product.available - 1]))

notifyDelay(leadTime, p) ==
    Call(86, updateProduct(p.id, [leadTime |-> leadTime]))
    \o Call(87, sendDelayNotification(leadTime, p.name))

isWithinSeason_Inclusive(p, now) ==
    /\ Truthy(p.seasonStartDate)
    /\ Truthy(p.seasonEndDate)
    /\ now >= p.seasonStartDate
    /\ now <= p.seasonEndDate

isWithinSeason(p, now) ==
    /\ Truthy(p.seasonStartDate)
    /\ Truthy(p.seasonEndDate)
    /\ now > p.seasonStartDate
    /\ now < p.seasonEndDate

isNotExpired_Inclusive(p, now) ==
    Truthy(p.expiryDate) /\ p.expiryDate >= now

isNotExpired(p, now) ==
    Truthy(p.expiryDate) /\ p.expiryDate > now

handleSeasonalProduct_NoStartCheck(p, now) ==
    LET expectedRestockDate == now + (p.leadTime * DAY_IN_MS) IN
    IF expectedRestockDate > ToNumber(p.seasonEndDate)
    THEN Call(93, sendOutOfStockNotification(p.name))
         \o Call(94, updateProduct(p.id, [available |-> 0]))
    ELSE Call(105, notifyDelay(p.leadTime, p))

handleSeasonalProduct_StartCheckFirst(p, now) ==
    LET expectedRestockDate == now + (p.leadTime * DAY_IN_MS) IN
    IF ToNumber(p.seasonStartDate) > now
    THEN Call(99, sendOutOfStockNotification(p.name))
         \o Call(101, updateProduct(p.id, [available |-> p.available,
                                           leadTime |-> p.leadTime]))
    ELSE IF expectedRestockDate > ToNumber(p.seasonEndDate)
    THEN Call(93, sendOutOfStockNotification(p.name))
         \o Call(94, updateProduct(p.id, [available |-> 0]))
    ELSE Call(105, notifyDelay(p.leadTime, p))

handleSeasonalProduct(p, now) ==
    LET expectedRestockDate == now + (p.leadTime * DAY_IN_MS) IN
    IF expectedRestockDate > ToNumber(p.seasonEndDate)
    THEN Call(93, sendOutOfStockNotification(p.name))
         \o Call(94, updateProduct(p.id, [available |-> 0]))
    ELSE IF ToNumber(p.seasonStartDate) > now
    THEN Call(99, sendOutOfStockNotification(p.name))
         \o Call(101, updateProduct(p.id, [available |-> p.available,
                                           leadTime |-> p.leadTime]))
    ELSE Call(105, notifyDelay(p.leadTime, p))

handleExpiredProduct(p, now) ==
    IF p.available > 0 /\ isNotExpired(p, now)
    THEN Call(114, decrementAvailable(p))
    ELSE Call(118, sendExpirationNotification(p.name, p.expiryDate))
         \o Call(119, updateProduct(p.id, [available |-> 0]))

processNormalProduct_AlwaysNotify(product) ==
    IF product.available > 0
    THEN Call(50, decrementAvailable(product))
    ELSE Call(55, notifyDelay(product.leadTime, product))

processNormalProduct_NoStockCheck(product) ==
    Call(50, decrementAvailable(product))

processNormalProduct(product) ==
    IF product.available > 0
    THEN Call(50, decrementAvailable(product))
    ELSE IF product.leadTime > 0
    THEN Call(55, notifyDelay(product.leadTime, product))
    ELSE <<>>

processSeasonalProduct(product, now) ==
    IF isWithinSeason(product, now) /\ product.available > 0
    THEN Call(61, decrementAvailable(product))
    ELSE Call(65, handleSeasonalProduct(product, now))

processExpirableProduct(product, now) ==
    IF product.available > 0 /\ isNotExpired(product, now)
    THEN Call(70, decrementAvailable(product))
    ELSE Call(74, handleExpiredProduct(product, now))

processOneUnit(product, now) ==
    CASE product.type = "NORMAL" -> Call(32, processNormalProduct(product))
      [] product.type = "SEASONAL" -> Call(37, processSeasonalProduct(product, now))
      [] product.type = "EXPIRABLE" -> Call(42, processExpirableProduct(product, now))
      [] OTHER -> <<>>

(* ----------------------- the persistence gateway ----------------------- *)

Patched(row, patch) ==
    [f \in DOMAIN row |-> IF f \in DOMAIN patch THEN patch[f] ELSE row[f]]

dbUpdate_NoWhere(store, productId, patch) ==
    [i \in DOMAIN store |-> Patched(store[i], patch)]

dbUpdate(store, productId, patch) ==
    [i \in DOMAIN store |->
        IF store[i].id = productId THEN Patched(store[i], patch) ELSE store[i]]

RECURSIVE Run(_, _)
Run(store, effects) ==
    IF effects = <<>> THEN store
    ELSE LET e == Head(effects) IN
         Run(IF e.op = "update" THEN dbUpdate(store, e.id, e.patch) ELSE store,
             Tail(effects))

Updates(effects) == SelectSeq(effects, LAMBDA e : e.op = "update")

Notifications(effects) == SelectSeq(effects, LAMBDA e : e.op # "update")

Via(effects, line) ==
    \E i \in DOMAIN effects :
        \E j \in DOMAIN effects[i].path : effects[i].path[j] = line

(* failAt = 0: every collaborator call succeeds; failAt = k: the k-th call *)
(* throws, the ones before it have taken effect, the rest are never made.  *)
Done(effects, failAt) ==
    IF failAt = 0 THEN effects ELSE SubSeq(effects, 1, failAt - 1)

(* ------------------------------- state --------------------------------- *)
(* db     the products table, one row per id                               *)
(* held   the Product object a caller of the service has in hand           *)
(* last   the latest processOneUnit call made with it                      *)
(* clock  the wall clock read by new Date()                                *)
(* req    the state of each request handler of the order endpoint          *)

VARIABLES db, held, last, clock, req

vars == <<db, held, last, clock, req>>

NoRecord == [id |-> 0]

NoCall == [product |-> NoRecord]

Requests == {"r1", "r2"}

OrderIds == {1, 2}

(* The products of each stored order, in the order the query returns them. *)
orderProducts(orderId) == IF orderId = 1 THEN <<1, 2>> ELSE <<2, 1>>

Idle ==
    [pc |-> "idle", orderId |-> 0, productList |-> <<>>, calls |-> <<>>,
     sent |-> <<>>, threw |-> FALSE, bought |-> {}, stale |-> {}]

(* ------------------ the service called with a record ------------------- *)

Init ==
    /\ \E r \in Rows(1), b \in {x \in Bystanders(2) : x.type = "NORMAL"} :
          db = [i \in ProductIds |-> IF i = 1 THEN r ELSE b]
    /\ held = NoRecord
    /\ last = NoCall
    /\ clock = Day(1)
    /\ req = [r \in Requests |-> Idle]

Fetch(id) ==
    /\ held' = db[id]
    /\ last' = NoCall
    /\ UNCHANGED <<db, clock, req>>

CallProcessOneUnit(now, failAt) ==
    /\ held # NoRecord
    /\ LET effects == processOneUnit(held, now) IN
       /\ failAt \in 0..Len(effects)
       /\ db' = Run(db, Done(effects, failAt))
       /\ last' = [product |-> held, now |-> now, before |-> db[held.id],
                   effects |-> effects, done |-> Done(effects, failAt),
                   threw |-> failAt # 0]
    /\ UNCHANGED <<held, clock, req>>

Next ==
    \/ \E id \in ProductIds : Fetch(id)
    \/ \E now \in Times, failAt \in 0..2 : CallProcessOneUnit(now, failAt)

Spec == Init /\ [][Next]_vars

(* ------------------------- the order endpoint -------------------------- *)

(* The rows of the first product in the endpoint's runs: every type and    *)
(* stock level, the longest lead time, the season from day 2 to the last   *)
(* day and the expiry on day 2.                                            *)
OrderRows(id) ==
    {r \in Rows(id) :
        /\ r.leadTime = MaxLeadTime
        /\ r.type = "EXPIRABLE" => r.expiryDate = Day(2)
        /\ r.type = "SEASONAL" =>
              r.seasonStartDate = Day(2) /\ r.seasonEndDate = Day(MaxDay)}

InitOrder ==
    /\ \E r \in OrderRows(1), b \in Bystanders(2) :
          db = [i \in ProductIds |-> IF i = 1 THEN r ELSE b]
    /\ held = NoRecord
    /\ last = NoCall
    /\ clock = Day(1)
    /\ req = [r \in Requests |-> Idle]

Tick ==
    /\ clock < Day(MaxDay)
    /\ clock' = clock + DAY_IN_MS
    /\ UNCHANGED <<db, held, last, req>>

(* findFirst with the order's products: one Product object per entry.      *)
Receive(r, orderId) ==
    /\ req[r].pc = "idle"
    /\ req' = [req EXCEPT ![r] =
          [@ EXCEPT !.pc = "loop", !.orderId = orderId,
             !.productList = [k \in DOMAIN orderProducts(orderId) |->
                                db[orderProducts(orderId)[k]]]]]
    /\ UNCHANGED <<db, held, last, clock>>

ProcessNext_SwallowErrors(r, failAt) ==
    /\ req[r].pc = "loop"
    /\ Len(req[r].calls) < Len(req[r].productList)
    /\ LET product == req[r].productList[Len(req[r].calls) + 1]
           effects == processOneUnit(product, clock)
           done == Done(effects, failAt)
       IN /\ failAt \in 0..Len(effects)
          /\ db' = Run(db, done)
          /\ req' = [req EXCEPT ![r] =
                [@ EXCEPT !.pc = "loop",
                   !.calls = Append(@, product.id),
                   !.sent = @ \o Notifications(done),
                   !.threw = failAt # 0,
                   !.bought = IF failAt = 0 /\ Len(done) = 1 /\ Via(done, 78)
                              THEN @ \cup {product.id} ELSE @,
                   !.stale = IF product # db[product.id]
                             THEN @ \cup {product.id} ELSE @]]
    /\ UNCHANGED <<held, last, clock>>

(* One turn of the loop: await processOneUnit(product), now = new Date().  *)
ProcessNext(r, failAt) ==
    /\ req[r].pc = "loop"
    /\ Len(req[r].calls) < Len(req[r].productList)
    /\ LET product == req[r].productList[Len(req[r].calls) + 1]
           effects == processOneUnit(product, clock)
           done == Done(effects, failAt)
       IN /\ failAt \in 0..Len(effects)
          /\ db' = Run(db, done)
          /\ req' = [req EXCEPT ![r] =
                [@ EXCEPT !.pc = IF failAt # 0 THEN "failed" ELSE "loop",
                   !.calls = Append(@, product.id),
                   !.sent = @ \o Notifications(done),
                   !.threw = failAt # 0,
                   !.bought = IF failAt = 0 /\ Len(done) = 1 /\ Via(done, 78)
                              THEN @ \cup {product.id} ELSE @,
                   !.stale = IF product # db[product.id]
                             THEN @ \cup {product.id} ELSE @]]
    /\ UNCHANGED <<held, last, clock>>

(* await reply.send({orderId: order.id})                                   *)
Reply(r) ==
    /\ req[r].pc = "loop"
    /\ Len(req[r].calls) = Len(req[r].productList)
    /\ req' = [req EXCEPT ![r] = [@ EXCEPT !.pc = "replied"]]
    /\ UNCHANGED <<db, held, last, clock>>

NextOrder ==
    \/ Tick
    \/ \E r \in Requests, orderId \in OrderIds : Receive(r, orderId)
    \/ \E r \in Requests, failAt \in 0..2 : ProcessNext(r, failAt)
    \/ \E r \in Requests : Reply(r)

SpecOrder == InitOrder /\ [][NextOrder]_vars

(* ------------------- vocabulary of the properties ---------------------- *)

Called == last # NoCall

Completed == Called /\ ~last.threw

IsUpdate(e, id, patch) == e.op = "update" /\ e.id = id /\ e.patch = patch

IsDelay(e, leadTime, name) ==
    e.op = "sendDelayNotification" /\ e.leadTime = leadTime /\ e.name = name

IsOutOfStock(e, name) == e.op = "sendOutOfStockNotification" /\ e.name = name

IsExpiration(e, name, expiryDate) ==
    /\ e.op = "sendExpirationNotification"
    /\ e.name = name
    /\ e.expiryDate = expiryDate

(* The decrement condition, in the words of the specification.             *)
DecrementCondition(product, now) ==
    /\ product.available > 0
    /\ \/ product.type = "NORMAL"
       \/ /\ product.type = "SEASONAL"
          /\ product.seasonStartDate # Null
          /\ product.seasonEndDate # Null
          /\ product.seasonStartDate < now
          /\ now < product.seasonEndDate
       \/ /\ product.type = "EXPIRABLE"
          /\ product.expiryDate # Null
          /\ product.expiryDate > now

(* The call wrote available - 1 and notified nobody.                       *)
SilentDecrement(c) ==
    /\ Len(c.done) = 1
    /\ IsUpdate(c.done[1], c.product.id, [available |-> c.product.available - 1])

(* C1: a completed processOneUnit(product, now) writes available =         *)
(* product.available - 1 to the product's row and fires no notification    *)
(* if and only if the decrement condition holds (available > 0 and NORMAL, *)
(* or SEASONAL strictly inside a season with both bounds, or EXPIRABLE     *)
(* with an expiry date strictly after now); the row then stores            *)
(* product.available - 1, and in every other case decrementAvailable is    *)
(* not reached.                                                            *)
C1_DecrementIff ==
    Completed =>
        /\ SilentDecrement(last) <=> DecrementCondition(last.product, last.now)
        /\ SilentDecrement(last) =>
              db[last.product.id].available = last.product.available - 1
        /\ ~DecrementCondition(last.product, last.now) => ~Via(last.effects, 78)

C1_Witness ==
    /\ Completed
    /\ last.product.type = "SEASONAL"
    /\ SilentDecrement(last)
    /\ db[last.product.id].available = last.before.available - 1

(* C2: for a NORMAL product with available = 0 the stored available never  *)
(* changes; with leadTime > 0 exactly one delay notification               *)
(* (leadTime, name) fires and no other; with leadTime = 0 nothing is       *)
(* notified and nothing is written.                                        *)
C2_NormalOutOfStock ==
    (Called /\ last.product.type = "NORMAL" /\ last.product.available = 0) =>
        /\ db[last.product.id].available = last.before.available
        /\ (~last.threw /\ last.product.leadTime > 0) =>
              LET n == Notifications(last.done) IN
              /\ Len(n) = 1
              /\ IsDelay(n[1], last.product.leadTime, last.product.name)
        /\ last.product.leadTime = 0 => last.effects = <<>>

C2_Witness ==
    /\ Completed
    /\ last.product.type = "NORMAL"
    /\ last.product.available = 0
    /\ last.product.leadTime > 0
    /\ Len(Notifications(last.done)) = 1

(* The call's product is SEASONAL, both season bounds are present and in   *)
(* order, and now is before the start of the season.                       *)
BeforeSeason(c) ==
    /\ c.product.type = "SEASONAL"
    /\ c.product.seasonStartDate # Null
    /\ c.product.seasonEndDate # Null
    /\ c.product.seasonStartDate <= c.product.seasonEndDate
    /\ c.now < c.product.seasonStartDate

StockUntouched(c) ==
    /\ db[c.product.id].available = c.before.available
    /\ db[c.product.id].leadTime = c.before.leadTime

RestockAfterSeason(c) ==
    c.now + (c.product.leadTime * DAY_IN_MS) > c.product.seasonEndDate

(* C3 as stated: for every SEASONAL product processed with now before      *)
(* seasonStartDate the out-of-stock notification fires with the name and   *)
(* the stored available and leadTime are the same after the call as        *)
(* before it.                                                              *)
C3_AsStated ==
    (Completed /\ BeforeSeason(last)) =>
        /\ \E i \in DOMAIN last.done : IsOutOfStock(last.done[i], last.product.name)
        /\ StockUntouched(last)

(* C3 amended: for a SEASONAL product processed with now before            *)
(* seasonStartDate, the out-of-stock notification fires with the name;     *)
(* when moreover now + leadTime days is not later than seasonEndDate the   *)
(* row is re-written with the record's own available and leadTime, so the  *)
(* stored values are unchanged whenever the record carried the stored      *)
(* values.                                                                 *)
C3_BeforeSeason ==
    (Completed /\ BeforeSeason(last)) =>
        /\ \E i \in DOMAIN last.done : IsOutOfStock(last.done[i], last.product.name)
        /\ ~RestockAfterSeason(last) =>
              /\ db[last.product.id].available = last.product.available
              /\ db[last.product.id].leadTime = last.product.leadTime
              /\ (/\ last.product.available = last.before.available
                  /\ last.product.leadTime = last.before.leadTime)
                    => StockUntouched(last)

C3_Witness ==
    /\ Completed
    /\ BeforeSeason(last)
    /\ ~RestockAfterSeason(last)
    /\ last.product.available > 0
    /\ last.product.leadTime > 0
    /\ last.product.available = last.before.available
    /\ Len(last.done) = 2
    /\ StockUntouched(last)

(* C4: a SEASONAL product that is not decremented (out of season or        *)
(* available = 0) and whose restock date now + leadTime days is later than *)
(* seasonEndDate gets the out-of-stock notification with its name and      *)
(* available = 0 persisted, and no delay notification, also when the       *)
(* season has not started.                                                 *)
C4_RestockAfterSeasonEnd ==
    (/\ Completed
     /\ last.product.type = "SEASONAL"
     /\ ~DecrementCondition(last.product, last.now)
     /\ last.product.seasonEndDate # Null
     /\ RestockAfterSeason(last)) =>
        /\ Len(last.done) = 2
        /\ IsOutOfStock(last.done[1], last.product.name)
        /\ IsUpdate(last.done[2], last.product.id, [available |-> 0])
        /\ db[last.product.id].available = 0

C4_Witness ==
    /\ Completed
    /\ BeforeSeason(last)
    /\ RestockAfterSeason(last)
    /\ last.before.available > 0
    /\ db[last.product.id].available = 0
    /\ Len(Notifications(last.done)) = 1

(* C5: an EXPIRABLE product that is not decremented (expired, expiring     *)
(* now, without expiry date, or out of stock) gets the expiration          *)
(* notification (name, expiryDate) and available = 0 persisted; the        *)
(* decrement of the expiration handler is never reached.                   *)
C5_Expired ==
    /\ Called => ~Via(last.effects, 114)
    /\ (/\ Completed
        /\ last.product.type = "EXPIRABLE"
        /\ ~DecrementCondition(last.product, last.now)) =>
          /\ Len(last.done) = 2
          /\ IsExpiration(last.done[1], last.product.name, last.product.expiryDate)
          /\ IsUpdate(last.done[2], last.product.id, [available |-> 0])
          /\ db[last.product.id].available = 0

C5_Witness ==
    /\ Completed
    /\ last.product.type = "EXPIRABLE"
    /\ last.product.available = 0
    /\ last.product.expiryDate > last.now
    /\ Len(Notifications(last.done)) = 1
    /\ db[last.product.id].available = 0

(* C6 as stated: two processOneUnit calls in immediate succession with the *)
(* same record, on a product that satisfies the decrement condition with   *)
(* available >= 2, leave the stored available at the initial value - 2.    *)
C6_TwiceDecrementsTwice ==
    [][(/\ Completed
        /\ last.before.available = last.product.available
        /\ last.product.available >= 2
        /\ DecrementCondition(last.product, last.now)
        /\ last' # NoCall
        /\ ~last'.threw
        /\ last'.product = last.product
        /\ last'.before = db[last.product.id]
        /\ DecrementCondition(last'.product, last'.now))
       => db'[last.product.id].available = last.before.available - 2]_vars

(* C7: a step changes at most the available and leadTime of the one row    *)
(* whose id is that of the record in hand; every other field, every other  *)
(* row and the set of rows stay; a record of an unknown type causes no     *)
(* write and no notification.                                              *)
C7_Frame ==
    [][/\ DOMAIN db' = DOMAIN db
       /\ \A i \in DOMAIN db :
            /\ db[i].id # held.id => db'[i] = db[i]
            /\ \A f \in DOMAIN db[i] \ {"available", "leadTime"} :
                  db'[i][f] = db[i][f]
       /\ (last' # NoCall /\ last'.product.type \notin KnownTypes) =>
            last'.effects = <<>> /\ db' = db]_vars

C7_Witness ==
    /\ Completed
    /\ db[last.product.id] # last.before
    /\ \E i \in DOMAIN db : db[i].id # last.product.id

(* ------------------- properties of the order endpoint ------------------ *)

RecordOf(r, id) ==
    LET l == req[r].productList IN l[CHOOSE k \in DOMAIN l : l[k].id = id]

Holds(r, id) == \E k \in DOMAIN req[r].productList : req[r].productList[k].id = id

(* C8: when two requests both read a row with available = n > 0 and each   *)
(* completes a silent decrement of it, both write n - 1: two units are     *)
(* purchased and the stored available is n - 1.                            *)
C8_LostUpdate ==
    \A id \in ProductIds :
        (/\ \A r \in Requests : Holds(r, id) /\ id \in req[r].bought
         /\ RecordOf("r1", id).available = RecordOf("r2", id).available)
        => db[id].available = RecordOf("r1", id).available - 1

C8_Witness ==
    \E id \in ProductIds :
        /\ \A r \in Requests :
              /\ req[r].pc = "replied"
              /\ id \in req[r].bought
              /\ req[r].sent = <<>>
        /\ RecordOf("r1", id).available = RecordOf("r2", id).available
        /\ RecordOf("r1", id).available > 0
        /\ db[id].available = RecordOf("r1", id).available - 1

(* The endpoint's bookkeeping for one request.                             *)
C9_State(r) ==
    LET q == req[r]
        ids == orderProducts(q.orderId)
    IN  q.pc # "idle" =>
          /\ Len(q.calls) <= Len(ids)
          /\ q.calls = SubSeq(ids, 1, Len(q.calls))
          /\ q.pc = "replied" => q.calls = ids /\ ~q.threw
          /\ q.threw => q.pc = "failed"

(* C9: a request processes its order's products one at a time in list      *)
(* order and replies only after the last; once a collaborator call has     *)
(* thrown the request has failed, processes nothing more and never         *)
(* replies, and the failing step leaves untouched the rows of the other    *)
(* products and the notifications already fired.                           *)
C9_FailurePropagates ==
    [][\A r \in Requests :
          /\ C9_State(r)'
          /\ req[r].threw => req'[r] = req[r]
          /\ Len(req[r].sent) <= Len(req'[r].sent)
          /\ SubSeq(req'[r].sent, 1, Len(req[r].sent)) = req[r].sent
          /\ (~req[r].threw /\ req'[r].threw) =>
                \A i \in DOMAIN db :
                    db[i].id # req'[r].calls[Len(req'[r].calls)] => db'[i] = db[i]
      ]_vars

C9_Witness ==
    \E r \in Requests :
        /\ req[r].pc = "failed"
        /\ Len(req[r].calls) = 2
        /\ req[r].calls[1] \in req[r].bought
        /\ db[req[r].calls[1]].available = req[r].productList[1].available - 1
        /\ Len(req[r].sent) = 1
        /\ db[req[r].calls[2]] = req[r].productList[2]

(* C10: the stored available of every row is never negative, whatever the  *)
(* interleaving of the requests and however stale their records.           *)
C10_AvailableNonNegative ==
    \A i \in DOMAIN db : db[i].available >= 0

C10_Witness ==
    \E r \in Requests, id \in ProductIds :
        /\ id \in req[r].stale
        /\ id \in req[r].bought
        /\ RecordOf(r, id).available = 1
        /\ \A s \in Requests : id \in req[s].bought
        /\ db[id].available = 0

====
